---- MODULE Spec2Model ----
(***************************************************************************)
(* Model of the image-to-video backend: the atempo chain planner of        *)
(* backend/python_ffmpeg.py and the task poll loop of                      *)
(* backend/video_generator.py (KlingGenerator._poll_task_status).          *)
(***************************************************************************)
EXTENDS Integers, Sequences, FiniteSets, TLC

VARIABLES
    \* make_atempo_chain
    ratio0,       \* the argument `ratio` as passed by the caller
    ratio,        \* the local `ratio`, divided in place by the two loops
    parts,        \* the list `parts` (the factors of the ('atempo', f) pairs)
    tpc,          \* position in make_atempo_chain
    \* KlingGenerator._poll_task_status
    pc,           \* position in _poll_task_status
    attempt,      \* the loop variable `attempt`
    jwt_token,    \* the local `jwt_token`
    headers,      \* headers["Authorization"], the token the requests carry
    issued,       \* number of tokens _generate_jwt_token has built
    response,     \* outcome of the current requests.get
    result,       \* the value returned to the caller
    returned_at,  \* the return statement that produced `result`
    requests,     \* number of status requests sent
    sleeps,       \* number of time.sleep(poll_interval) calls
    \* KlingGenerator.__init__ and KlingGenerator.generate_video
    gpc,          \* position in __init__ / generate_video
    env,          \* KLING_ACCESS_KEY and KLING_SECRET_KEY of the environment
    access_key,   \* self.access_key
    secret_key,   \* self.secret_key
    gen_token,    \* the local `jwt_token` of generate_video
    create_auth,  \* the token the creation request carried
    create_response,  \* outcome of requests.post
    creations,    \* number of creation requests sent
    downloads,    \* number of download requests sent
    download_response,  \* outcome of the download
    gresult,      \* the value generate_video returned
    \* merge_audio_video, get_duration and sync_audio_to_video
    mpc,          \* position in merge_audio_video
    video_file,   \* what video_path names: nothing, a file or a directory
    audio_file,   \* what audio_path names
    output_exists,  \* os.path.exists(output_path)
    overwrite,    \* the overwrite argument
    video_duration,  \* merge_audio_video's video_duration, <<>> before
    audio_duration,  \* merge_audio_video's audio_duration, <<>> before
    dv,           \* sync_audio_to_video's dv, <<>> before
    da,           \* sync_audio_to_video's da, <<>> before
    probes,       \* number of ffprobe processes run
    transcodes,   \* number of ffmpeg processes run
    mresult,      \* the value merge_audio_video returned
    output_dir_exists,  \* os.path.exists(os.path.dirname(output_path))
    dir_created,  \* this call created the output directory
    output_written,  \* what ffmpeg did to the output path in this call
    output_duration,  \* duration of the file ffmpeg wrote, <<>> if none
    \* KlingGenerator._generate_jwt_token and its clock
    now,          \* int(time.time()), in seconds
    jpc,          \* position in _generate_jwt_token
    exp,          \* payload["exp"], <<>> before it is computed
    nbf,          \* payload["nbf"], <<>> before it is computed
    token,        \* the payload of the token returned last, <<>> before
    \* two generate_video calls on one KlingGenerator instance
    jobs,         \* the local variables of each call
    jobs_issued,  \* number of tokens built so far by the instance
    \* app.py: the project in Redis and two requests on it
    stored,       \* the project stored under its key
    vpc,          \* position in the /video/generate handler
    vproject,     \* its local `project`
    app_video_result, \* its local `video_result`
    vstatus,      \* the HTTP status it answered with, 0 before
    spc,          \* position in the speech handler
    sproject,     \* its local `project`
    sstatus       \* the HTTP status it answered with, 0 before

tempo_vars == <<ratio0, ratio, parts, tpc>>
poll_vars == <<pc, attempt, jwt_token, headers, issued, response, result,
               returned_at, requests, sleeps>>
gen_vars == <<gpc, env, access_key, secret_key, gen_token, create_auth,
              create_response, creations, downloads, download_response,
              gresult>>
vars == <<ratio0, ratio, parts, tpc, pc, attempt, jwt_token, headers, issued,
          response, result, returned_at, requests, sleeps, gpc, env,
          access_key, secret_key, gen_token, create_auth, create_response,
          creations, downloads, download_response, gresult, mpc, video_file,
          audio_file, output_exists, overwrite, video_duration,
          audio_duration, dv, da, probes, transcodes, mresult,
          output_dir_exists, dir_created, output_written, output_duration,
          now, jpc, exp, nbf, token, jobs, jobs_issued, stored, vpc,
          vproject, app_video_result, vstatus, spc, sproject, sstatus>>
merge_vars == <<mpc, video_file, audio_file, output_exists, overwrite,
                video_duration, audio_duration, dv, da, probes, transcodes,
                mresult, output_dir_exists, dir_created, output_written,
                output_duration>>

token_vars == <<now, jpc, exp, nbf, token>>
jobs_vars == <<jobs, jobs_issued>>
app_vars == <<stored, vpc, vproject, app_video_result, vstatus, spc, sproject,
              sstatus>>

\* what the statements of one function leave alone
tempo_frame == <<poll_vars, gen_vars, merge_vars, token_vars, jobs_vars,
    app_vars>>
poll_frame == <<tempo_vars, gen_vars, merge_vars, token_vars, jobs_vars,
    app_vars>>
gen_frame == <<tempo_vars, merge_vars, token_vars, jobs_vars,
    app_vars>>
merge_frame == <<tempo_vars, poll_vars, gen_vars, token_vars, jobs_vars,
    app_vars>>
token_frame == <<tempo_vars, poll_vars, gen_vars, merge_vars, jobs_vars,
    app_vars>>
jobs_frame == <<tempo_vars, poll_vars, gen_vars, merge_vars, token_vars,
    app_vars>>
app_frame == <<tempo_vars, poll_vars, gen_vars, merge_vars, token_vars,
    jobs_vars>>

(***************************************************************************)
(* Floating point ratios.  Every division the planner performs is by 2.0   *)
(* or by 0.5, which is exact in binary floating point, so a ratio is       *)
(* modelled as an exact fraction n/d.                                      *)
(***************************************************************************)
MaxNum == 12
MaxDen == 12

\* the model follows the second loop of the planner for at most MaxParts
\* elements; a ratio within MaxNum and MaxDen needs fewer
MaxParts == 6

Frac(n, d) == [n |-> n, d |-> d]
Gt(a, b) == a.n * b.d > b.n * a.d
Lt(a, b) == a.n * b.d < b.n * a.d
Eq(a, b) == a.n * b.d = b.n * a.d
Mul(a, b) == [n |-> a.n * b.n, d |-> a.d * b.d]
Div(a, b) == [n |-> a.n * b.d, d |-> a.d * b.n]

Two == Frac(2, 1)
Half == Frac(1, 2)
One == Frac(1, 1)

\* The ratios a caller passes: every n/d > 0 within the bounds.
Ratios == {Frac(n, d) : n \in 1..MaxNum, d \in 1..MaxDen}

\* `while ratio > 2.0`
AboveRange_LoopsAtTwo(r) == ~Lt(r, Two)
AboveRange(r) == Gt(r, Two)

\* `while ratio < 0.5`
BelowRange_WrongThreshold(r) == Lt(r, Frac(1, 4))
BelowRange(r) == Lt(r, Half)

TempoInit ==
    /\ ratio0 \in Ratios
    /\ ratio = ratio0
    /\ parts = <<>>
    /\ tpc = "while_above"

\* parts.append(('atempo', 2.0)); ratio /= 2.0
PeelTwo ==
    /\ tpc = "while_above"
    /\ AboveRange(ratio)
    /\ parts' = Append(parts, Two)
    /\ ratio' = Div(ratio, Two)
    /\ UNCHANGED <<ratio0, tpc>>
    /\ UNCHANGED tempo_frame

\* the first loop's condition is false: fall through to the second loop
LeaveAbove ==
    /\ tpc = "while_above"
    /\ ~AboveRange(ratio)
    /\ tpc' = "while_below"
    /\ UNCHANGED <<ratio0, ratio, parts>>
    /\ UNCHANGED tempo_frame

\* parts.append(('atempo', 0.5)); ratio /= 0.5
PeelHalf ==
    /\ tpc = "while_below"
    /\ BelowRange(ratio)
    /\ Len(parts) < MaxParts
    /\ parts' = Append(parts, Half)
    /\ ratio' = Div(ratio, Half)
    /\ UNCHANGED <<ratio0, tpc>>
    /\ UNCHANGED tempo_frame

\* parts.append(('atempo', ratio)); return parts
AppendRemainder ==
    /\ tpc = "while_below"
    /\ ~BelowRange(ratio)
    /\ parts' = Append(parts, ratio)
    /\ tpc' = "returned"
    /\ UNCHANGED <<ratio0, ratio>>
    /\ UNCHANGED tempo_frame

TempoNext ==
    \/ PeelTwo
    \/ LeaveAbove
    \/ PeelHalf
    \/ AppendRemainder

(***************************************************************************)
(* Provider responses.  A JSON object is a record whose fields are         *)
(* optional values: <<>> when the key is absent, <<v>> when it is present. *)
(***************************************************************************)
None == "None"

\* dict.get(key, default)
Get(field, default) == IF field = <<>> THEN default ELSE field[1]

\* Texts of the top-level `message` of an error body, as character
\* sequences (the loop searches them for substrings).
MsgAuthFailed == <<"A", "u", "t", "h", " ", "f", "a", "i", "l", "e", "d">>
MsgTokenExpired == <<"t", "o", "k", "e", "n", " ", "e", "x", "p", "i", "r", "e", "d">>
MsgBusy == <<"b", "u", "s", "y">>
MsgSignature == <<"S", "i", "g", "n", "a", "t", "u", "r", "e", " ",
                  "e", "x", "p", "i", "r", "e", "d">>
MsgTokenQuota == <<"T", "o", "k", "e", "n", " ", "q", "u", "o", "t", "a", " ",
                   "e", "x", "c", "e", "e", "d", "e", "d">>
MsgUnknownError == <<"U", "n", "k", "n", "o", "w", "n", " ", "e", "r", "r", "o", "r">>
ErrorMessages == {MsgBusy, MsgTokenQuota}
AuthErrorMessages == {MsgAuthFailed, MsgTokenExpired, MsgSignature}

\* Texts of data.task_status_msg.
StatusMessages == {"content rejected", "Maximum polling attempts reached",
                   "No video in result"}

Video1 == [url |-> <<"https://cdn/v1.mp4">>, duration |-> <<"5">>]
Video2 == [url |-> <<"https://cdn/v2.mp4">>, duration |-> <<"10">>]
VideoNoUrl == [url |-> <<>>, duration |-> <<"5">>]

\* data.task_result: absent, JSON null, or an object with an optional list
NullResult == [is_null |-> TRUE, videos |-> <<>>]
ResultWith(videos) == [is_null |-> FALSE, videos |-> videos]
TaskResults == {<<>>, <<NullResult>>, <<ResultWith(<<>>)>>,
                <<ResultWith(<< <<>> >>)>>,
                <<ResultWith(<< <<Video1>> >>)>>,
                <<ResultWith(<< <<Video2, Video1>> >>)>>,
                <<ResultWith(<< <<VideoNoUrl>> >>)>>}

\* error_kind is what the provider's error is (an authentication failure
\* or another error): the meaning of its error code, which the loop never
\* reads.
Body(code, message, status, status_msg, task_result) ==
    [kind |-> "json", code |-> code, message |-> message,
     task_status |-> status, task_status_msg |-> status_msg,
     task_result |-> task_result,
     error_kind |-> IF code = <<0>> THEN "none" ELSE "other"]

\* the body of an authentication failure (credential rejected or expired)
AuthErrorBody(message) ==
    [Body(<<1>>, message, <<>>, <<>>, <<>>) EXCEPT !.error_kind = "auth"]

NoResponse == [kind |-> "none"]

\* requests.get raised, raise_for_status raised (for a 401 that rejects
\* the credential, or for another error status), response.json() raised
FailedRequests == {[kind |-> "network_error"], [kind |-> "http_error"],
                   [kind |-> "http_unauthorized"], [kind |-> "parse_error"]}

\* bodies whose code is absent or not 0
ErrorBodies ==
    {Body(c, m, <<>>, <<>>, <<>>) :
        c \in {<<>>, <<1>>}, m \in {<<>>} \cup {<<t>> : t \in ErrorMessages}}
    \cup {Body(<<1>>, <<MsgBusy>>, <<"succeed">>, <<>>,
               <<ResultWith(<< <<Video1>> >>)>>)}
    \cup {AuthErrorBody(m) : m \in {<<>>} \cup {<<t>> : t \in AuthErrorMessages}}

\* bodies with code 0 and a status that is neither "succeed" nor "failed"
RunningBodies ==
    {Body(<<0>>, <<>>, s, <<>>, <<>>) :
        s \in {<<>>, <<"submitted">>, <<"processing">>, <<"archived">>}}
    \cup {Body(<<0>>, <<>>, <<"processing">>, <<>>, <<NullResult>>)}

FailedBodies ==
    {Body(<<0>>, <<>>, <<"failed">>, m, <<>>) :
        m \in {<<>>} \cup {<<t>> : t \in StatusMessages}}

SucceedBodies ==
    {Body(<<0>>, <<>>, <<"succeed">>, <<>>, tr) : tr \in TaskResults}

Responses ==
    FailedRequests \cup ErrorBodies \cup RunningBodies \cup FailedBodies
        \cup SucceedBodies

(***************************************************************************)
(* KlingGenerator._poll_task_status                                        *)
(***************************************************************************)
max_attempts == 100

UpperCase == <<"A", "B", "C", "D", "E", "F", "G", "H", "I", "J", "K", "L", "M",
               "N", "O", "P", "Q", "R", "S", "T", "U", "V", "W", "X", "Y", "Z">>
LowerCase == <<"a", "b", "c", "d", "e", "f", "g", "h", "i", "j", "k", "l", "m",
               "n", "o", "p", "q", "r", "s", "t", "u", "v", "w", "x", "y", "z">>

\* str.lower()
LowerChar(c) ==
    IF \E i \in 1..Len(UpperCase) : UpperCase[i] = c
    THEN LowerCase[CHOOSE i \in 1..Len(UpperCase) : UpperCase[i] = c]
    ELSE c
Lower(text) == [i \in 1..Len(text) |-> LowerChar(text[i])]

\* pattern in text
Contains(text, pattern) ==
    \E i \in 1..(Len(text) - Len(pattern) + 1) :
        SubSeq(text, i, i + Len(pattern) - 1) = pattern

\* "token" in error_message.lower() or "auth" in error_message.lower()
LooksLikeAuthError(error_message) ==
    \/ Contains(Lower(error_message), <<"t", "o", "k", "e", "n">>)
    \/ Contains(Lower(error_message), <<"a", "u", "t", "h">>)

\* result.get('code') != 0
CodeNotZero(r) == IF r.code = <<>> THEN TRUE ELSE r.code[1] # 0

\* result.get('data', {}).get('task_status')
TaskStatus(r) == Get(r.task_status, None)

\* task_status == "failed"
IsFailed_MissingToo(task_status) == task_status \in {"failed", None}
IsFailed(task_status) == task_status = "failed"

\* task_status == "succeed"
IsSucceed(task_status) == task_status = "succeed"

\* task_result.get('videos', []) on the value of data.get('task_result', {})
Videos(r) == IF r.task_result = <<>> THEN <<>>
             ELSE Get(r.task_result[1].videos, <<>>)

\* The statements of the try block that raise: the request itself, and
\* task_result.get(...) when data.task_result is null and the status is
\* "succeed".
Raises(r) ==
    IF r.kind # "json" THEN TRUE
    ELSE /\ ~CodeNotZero(r)
         /\ ~IsFailed(TaskStatus(r))
         /\ IsSucceed(TaskStatus(r))
         /\ r.task_result # <<>>
         /\ r.task_result[1].is_null

NotReturned == [pending |-> TRUE]

\* {"status": "failed", "error": error_message}
FailedResult_FixedText(r) == [status |-> "failed", error |-> "Unknown error"]
FailedResult(r) ==
    [status |-> "failed", error |-> Get(r.task_status_msg, "Unknown error")]

\* {"status": "failed", "error": "No video in result"}
NoVideoResult == [status |-> "failed", error |-> "No video in result"]

\* {"status": "completed", "url": ..., "duration": ...} of videos[0]
CompletedResult_LastVideo(videos) ==
    [status |-> "completed", url |-> Get(videos[Len(videos)].url, None),
     duration |-> Get(videos[Len(videos)].duration, None)]
CompletedResult(videos) ==
    [status |-> "completed", url |-> Get(videos[1].url, None),
     duration |-> Get(videos[1].duration, None)]

\* {"status": "failed", "error": "Maximum polling attempts reached"}
TimeoutResult ==
    [status |-> "failed", error |-> "Maximum polling attempts reached"]

PollInit ==
    /\ pc = "start"
    /\ attempt = 0
    /\ jwt_token = 0
    /\ headers = 0
    /\ issued = 0
    /\ response = NoResponse
    /\ result = NotReturned
    /\ returned_at = "none"
    /\ requests = 0
    /\ sleeps = 0

\* jwt_token = self._generate_jwt_token(); headers = {...}; url = ...
StartPolling ==
    /\ pc = "start"
    /\ issued' = issued + 1
    /\ jwt_token' = issued + 1
    /\ headers' = issued + 1
    /\ pc' = IF 0 < max_attempts THEN "request" ELSE "exhausted"
    /\ UNCHANGED <<attempt, response, result, returned_at, requests, sleeps>>
    /\ UNCHANGED poll_frame

\* response = requests.get(url, headers=headers); raise_for_status(); json()
SendStatusRequest ==
    /\ pc = "request"
    /\ \E r \in Responses : response' = r
    /\ requests' = requests + 1
    /\ pc' = "response"
    /\ UNCHANGED <<attempt, jwt_token, headers, issued, result, returned_at,
                   sleeps>>
    /\ UNCHANGED poll_frame

\* time.sleep(poll_interval), then the next iteration of the for loop
SleepAndContinue_NoBound ==
    /\ sleeps' = sleeps + 1
    /\ attempt' = attempt + 1
    /\ response' = NoResponse
    /\ pc' = IF attempt + 1 < max_attempts + 1 THEN "request" ELSE "exhausted"
SleepAndContinue ==
    /\ sleeps' = sleeps + 1
    /\ attempt' = attempt + 1
    /\ response' = NoResponse
    /\ pc' = IF attempt + 1 < max_attempts THEN "request" ELSE "exhausted"

Return_KeepsPolling(value, site) ==
    /\ result' = value
    /\ returned_at' = site
    /\ response' = NoResponse
    /\ pc' = "request"
    /\ UNCHANGED <<attempt, sleeps>>
Return(value, site) ==
    /\ result' = value
    /\ returned_at' = site
    /\ response' = NoResponse
    /\ pc' = "done"
    /\ UNCHANGED <<attempt, sleeps>>

\* except Exception: print, sleep, next attempt
PollRaised_Propagates ==
    /\ pc = "response"
    /\ Raises(response)
    /\ pc' = "raised"
    /\ UNCHANGED <<attempt, jwt_token, headers, issued, response, result,
                   returned_at, requests, sleeps>>
    /\ UNCHANGED poll_frame
PollRaised ==
    /\ pc = "response"
    /\ Raises(response)
    /\ SleepAndContinue
    /\ UNCHANGED <<jwt_token, headers, issued, result, returned_at, requests>>
    /\ UNCHANGED poll_frame

\* if result.get('code') != 0: refresh the token when the message looks
\* like an authentication error, sleep, continue
ProviderError_SleepsAgainOnRefresh ==
    /\ pc = "response"
    /\ ~Raises(response)
    /\ CodeNotZero(response)
    /\ IF LooksLikeAuthError(Get(response.message, MsgUnknownError))
       THEN /\ issued' = issued + 1
            /\ jwt_token' = issued + 1
            /\ headers' = issued + 1
            /\ sleeps' = sleeps + 2
       ELSE /\ sleeps' = sleeps + 1
            /\ UNCHANGED <<jwt_token, headers, issued>>
    /\ attempt' = attempt + 1
    /\ response' = NoResponse
    /\ pc' = IF attempt + 1 < max_attempts THEN "request" ELSE "exhausted"
    /\ UNCHANGED <<result, returned_at, requests>>
    /\ UNCHANGED poll_frame
ProviderError ==
    /\ pc = "response"
    /\ ~Raises(response)
    /\ CodeNotZero(response)
    /\ IF LooksLikeAuthError(Get(response.message, MsgUnknownError))
       THEN /\ issued' = issued + 1
            /\ jwt_token' = issued + 1
            /\ headers' = issued + 1
       ELSE UNCHANGED <<jwt_token, headers, issued>>
    /\ SleepAndContinue
    /\ UNCHANGED <<result, returned_at, requests>>
    /\ UNCHANGED poll_frame

\* if task_status == "failed": return {"status": "failed", "error": ...}
TaskFailed ==
    /\ pc = "response"
    /\ ~Raises(response)
    /\ ~CodeNotZero(response)
    /\ IsFailed(TaskStatus(response))
    /\ Return(FailedResult(response), "task_failed")
    /\ UNCHANGED <<jwt_token, headers, issued, requests>>
    /\ UNCHANGED poll_frame

\* elif task_status == "succeed": if not videos: return "No video in result"
TaskSucceedNoVideo ==
    /\ pc = "response"
    /\ ~Raises(response)
    /\ ~CodeNotZero(response)
    /\ ~IsFailed(TaskStatus(response))
    /\ IsSucceed(TaskStatus(response))
    /\ Videos(response) = <<>>
    /\ Return(NoVideoResult, "no_video")
    /\ UNCHANGED <<jwt_token, headers, issued, requests>>
    /\ UNCHANGED poll_frame

\* elif task_status == "succeed": return the first video
TaskSucceed ==
    /\ pc = "response"
    /\ ~Raises(response)
    /\ ~CodeNotZero(response)
    /\ ~IsFailed(TaskStatus(response))
    /\ IsSucceed(TaskStatus(response))
    /\ Videos(response) # <<>>
    /\ Return(CompletedResult(Videos(response)), "completed")
    /\ UNCHANGED <<jwt_token, headers, issued, requests>>
    /\ UNCHANGED poll_frame

\* neither branch: time.sleep(poll_interval), next attempt
StillProcessing ==
    /\ pc = "response"
    /\ ~Raises(response)
    /\ ~CodeNotZero(response)
    /\ ~IsFailed(TaskStatus(response))
    /\ ~IsSucceed(TaskStatus(response))
    /\ SleepAndContinue
    /\ UNCHANGED <<jwt_token, headers, issued, result, returned_at, requests>>
    /\ UNCHANGED poll_frame

\* after the loop: return {"status": "failed", "error": "Maximum polling ..."}
ReturnTimeout ==
    /\ pc = "exhausted"
    /\ Return(TimeoutResult, "timeout")
    /\ UNCHANGED <<jwt_token, headers, issued, requests>>
    /\ UNCHANGED poll_frame

PollNext ==
    \/ StartPolling
    \/ SendStatusRequest
    \/ PollRaised
    \/ ProviderError
    \/ TaskFailed
    \/ TaskSucceedNoVideo
    \/ TaskSucceed
    \/ StillProcessing
    \/ ReturnTimeout

(***************************************************************************)
(* KlingGenerator.__init__ and KlingGenerator.generate_video               *)
(***************************************************************************)
\* os.getenv('KLING_ACCESS_KEY', ''), os.getenv('KLING_SECRET_KEY', '')
Environments == [access : {"", "ak"}, secret : {"", "sk"}]

NoToken == [id |-> 0, iss |-> "", signed_with |-> ""]

\* _generate_jwt_token: payload iss = self.access_key, HMAC key =
\* self.secret_key
BuildToken(id) == [id |-> id, iss |-> access_key, signed_with |-> secret_key]

\* the image arguments of generate_video
ImageInputs ==
    {[image_data |-> d, image_path |-> None, stored |-> FALSE] :
        d \in {"data_url", "no_comma"}}
    \cup {[image_data |-> None, image_path |-> p, stored |-> st] :
            p \in {"http_url", "api_images_path", "local_file", "other"},
            st \in BOOLEAN}

\* data["image"] = image_data.split(',', 1)[1], or
\* self._get_image_as_url_or_base64(image_path): TRUE when the statement
\* raises
ImageRaises(input) ==
    IF input.image_data # None THEN input.image_data = "no_comma"
    ELSE IF input.image_path = "http_url" THEN FALSE
    ELSE IF input.image_path = "api_images_path" THEN ~input.stored
    ELSE IF input.image_path = "local_file" THEN ~input.stored
    ELSE TRUE

\* static_mask: None, a URL, or a path resolved like the image
MaskInputs == {[static_mask |-> None, stored |-> FALSE],
               [static_mask |-> "http_url", stored |-> FALSE]}
              \cup {[static_mask |-> "api_images_path", stored |-> st] :
                       st \in BOOLEAN}

MaskRaises(input) ==
    IF input.static_mask = None THEN FALSE
    ELSE IF input.static_mask = "http_url" THEN FALSE
    ELSE ~input.stored

NoCreateResponse == [kind |-> "none"]

CreateBody(code, message, task_id) ==
    [kind |-> "json", code |-> code, message |-> message, task_id |-> task_id]

\* requests.post raised, status_code != 200, response.json() raised, or a
\* JSON body {code, message, data: {task_id}}
CreateResponses ==
    {[kind |-> "network_error"], [kind |-> "http_error"],
     [kind |-> "parse_error"]}
    \cup {CreateBody(c, m, t) :
            c \in {<<>>, <<0>>, <<1>>},
            m \in {<<>>, <<"invalid image">>},
            t \in {<<>>, <<"">>, <<"task-1">>}}

\* the texts str(e) of the exceptions generate_video catches
CreateErrorText(r) ==
    IF r.kind = "network_error" THEN "connection error"
    ELSE IF r.kind = "http_error"
    THEN "Video generation request failed with status code 500"
    ELSE IF r.kind = "parse_error" THEN "invalid JSON"
    ELSE IF r.code # <<0>>
    THEN IF r.message = <<>>
         THEN "Video generation request failed: Unknown error"
         ELSE "Video generation request failed: invalid image"
    ELSE "Failed to get video generation task ID"

\* response.status_code != 200, result.get('code') != 0, not task_id
CreateRejected_IgnoresCode(r) ==
    IF r.kind # "json" THEN TRUE
    ELSE Get(r.task_id, None) \in {None, ""}
CreateRejected(r) ==
    IF r.kind # "json" THEN TRUE
    ELSE IF r.code # <<0>> THEN TRUE
    ELSE Get(r.task_id, None) \in {None, ""}

\* output_dir and video_result.get('url')
WantsDownload_AnyResult(output_dir, video_result) == output_dir # None
WantsDownload(output_dir, video_result) ==
    /\ output_dir # None
    /\ "url" \in DOMAIN video_result
    /\ video_result.url # None

NoDownload == [kind |-> "none"]

\* os.makedirs raised, requests.get raised, raise_for_status raised, writing
\* the file raised, or the file was written
DownloadOutcomes == {"makedirs_error", "network_error", "http_error",
                     "write_error", "saved"}

DownloadErrorText(outcome) ==
    IF outcome = "makedirs_error" THEN "cannot create directory"
    ELSE IF outcome = "network_error" THEN "connection error"
    ELSE IF outcome = "http_error" THEN "404 Client Error"
    ELSE "cannot write file"

\* {"status": "failed", "error": str(e)}
ErrorResult(error_message) == [status |-> "failed", error |-> error_message]

\* video_result with 'local_path' and 'path' added
SavedResult(video_result) ==
    [status |-> video_result.status, url |-> video_result.url,
     duration |-> video_result.duration,
     local_path |-> "output_dir/uuid.mp4", path |-> "/api/videos/uuid.mp4"]

GenIdle ==
    /\ gpc = "idle"
    /\ env = [access |-> "ak", secret |-> "sk"]
    /\ access_key = "ak"
    /\ secret_key = "sk"
    /\ gen_token = NoToken
    /\ create_auth = NoToken
    /\ create_response = NoCreateResponse
    /\ creations = 0
    /\ downloads = 0
    /\ download_response = NoDownload
    /\ gresult = NotReturned

GenInit ==
    /\ gpc = "new"
    /\ env \in Environments
    /\ access_key = ""
    /\ secret_key = ""
    /\ gen_token = NoToken
    /\ create_auth = NoToken
    /\ create_response = NoCreateResponse
    /\ creations = 0
    /\ downloads = 0
    /\ download_response = NoDownload
    /\ gresult = NotReturned

KeysConfigured == env = [access |-> "ak", secret |-> "sk"]

\* the poll loop before generate_video calls it
PollIdle ==
    /\ pc = "idle"
    /\ attempt = 0
    /\ jwt_token = 0
    /\ headers = 0
    /\ issued = 0
    /\ response = NoResponse
    /\ result = NotReturned
    /\ returned_at = "none"
    /\ requests = 0
    /\ sleeps = 0

\* __init__: read the keys; print a warning when one is empty
Construct ==
    /\ gpc = "new"
    /\ access_key' = env.access
    /\ secret_key' = env.secret
    /\ gpc' = "ready"
    /\ UNCHANGED <<env, gen_token, create_auth, create_response, creations,
                   downloads, download_response, gresult>>
    /\ UNCHANGED poll_vars
    /\ UNCHANGED gen_frame

\* jwt_token = self._generate_jwt_token(); headers = {...}; data = {...}
GenToken ==
    /\ gpc = "ready"
    /\ issued' = issued + 1
    /\ gen_token' = BuildToken(issued + 1)
    /\ gpc' = "image"
    /\ UNCHANGED <<env, access_key, secret_key, create_auth, create_response,
                   creations, downloads, download_response, gresult>>
    /\ UNCHANGED <<pc, attempt, jwt_token, headers, response, result,
                   returned_at, requests, sleeps>>
    /\ UNCHANGED gen_frame

\* except Exception as e: return {"status": "failed", "error": str(e)}
ExceptReturn(error_message) ==
    /\ gresult' = ErrorResult(error_message)
    /\ gpc' = "returned"

\* data["image"] = ... is set
ImageResolved ==
    /\ gpc = "image"
    /\ \E input \in ImageInputs : ~ImageRaises(input)
    /\ gpc' = "masks"
    /\ UNCHANGED <<env, access_key, secret_key, gen_token, create_auth,
                   create_response, creations, downloads, download_response,
                   gresult>>
    /\ UNCHANGED poll_vars
    /\ UNCHANGED gen_frame

\* data["image"] = ... raises
ImageFailed ==
    /\ gpc = "image"
    /\ \E input \in ImageInputs : ImageRaises(input)
    /\ ExceptReturn("image error")
    /\ UNCHANGED <<env, access_key, secret_key, gen_token, create_auth,
                   create_response, creations, downloads, download_response>>
    /\ UNCHANGED poll_vars
    /\ UNCHANGED gen_frame

\* the optional static mask is set
MaskResolved ==
    /\ gpc = "masks"
    /\ \E input \in MaskInputs : ~MaskRaises(input)
    /\ gpc' = "create"
    /\ UNCHANGED <<env, access_key, secret_key, gen_token, create_auth,
                   create_response, creations, downloads, download_response,
                   gresult>>
    /\ UNCHANGED poll_vars
    /\ UNCHANGED gen_frame

\* resolving the static mask raises
MaskFailed ==
    /\ gpc = "masks"
    /\ \E input \in MaskInputs : MaskRaises(input)
    /\ ExceptReturn("image error")
    /\ UNCHANGED <<env, access_key, secret_key, gen_token, create_auth,
                   create_response, creations, downloads, download_response>>
    /\ UNCHANGED poll_vars
    /\ UNCHANGED gen_frame

\* response = requests.post(url, headers=headers, json=data)
SendCreate ==
    /\ gpc = "create"
    /\ creations' = creations + 1
    /\ create_auth' = gen_token
    /\ \E r \in CreateResponses : create_response' = r
    /\ gpc' = "created"
    /\ UNCHANGED <<env, access_key, secret_key, gen_token, downloads,
                   download_response, gresult>>
    /\ UNCHANGED poll_vars
    /\ UNCHANGED gen_frame

\* status_code != 200, code != 0 or no task_id: raise, caught by the except
CreateFailed ==
    /\ gpc = "created"
    /\ CreateRejected(create_response)
    /\ ExceptReturn(CreateErrorText(create_response))
    /\ UNCHANGED <<env, access_key, secret_key, gen_token, create_auth,
                   create_response, creations, downloads, download_response>>
    /\ UNCHANGED poll_vars
    /\ UNCHANGED gen_frame

\* video_result = self._poll_task_status(task_id)
CallPoll ==
    /\ gpc = "created"
    /\ ~CreateRejected(create_response)
    /\ pc = "idle"
    /\ pc' = "start"
    /\ gpc' = "polling"
    /\ UNCHANGED <<env, access_key, secret_key, gen_token, create_auth,
                   create_response, creations, downloads, download_response,
                   gresult>>
    /\ UNCHANGED <<attempt, jwt_token, headers, issued, response, result,
                   returned_at, requests, sleeps>>
    /\ UNCHANGED gen_frame

\* the condition of the download is false: return video_result
ReturnPollResult ==
    /\ gpc = "polling"
    /\ pc = "done"
    /\ \E output_dir \in {None, "videos/project"} :
          ~WantsDownload(output_dir, result)
    /\ gresult' = result
    /\ gpc' = "returned"
    /\ UNCHANGED <<env, access_key, secret_key, gen_token, create_auth,
                   create_response, creations, downloads, download_response>>
    /\ UNCHANGED poll_vars
    /\ UNCHANGED gen_frame

\* os.makedirs(output_dir, exist_ok=True) raises
MakeDirFailed ==
    /\ gpc = "polling"
    /\ pc = "done"
    /\ \E output_dir \in {None, "videos/project"} :
          WantsDownload(output_dir, result)
    /\ download_response' = [kind |-> "makedirs_error"]
    /\ ExceptReturn(DownloadErrorText("makedirs_error"))
    /\ UNCHANGED <<env, access_key, secret_key, gen_token, create_auth,
                   create_response, creations, downloads>>
    /\ UNCHANGED poll_vars
    /\ UNCHANGED gen_frame

\* video_response = requests.get(video_url, stream=True) and the copy loop
SendDownload ==
    /\ gpc = "polling"
    /\ pc = "done"
    /\ \E output_dir \in {None, "videos/project"} :
          WantsDownload(output_dir, result)
    /\ downloads' = downloads + 1
    /\ \E outcome \in DownloadOutcomes \ {"makedirs_error"} :
          download_response' = [kind |-> outcome]
    /\ gpc' = "download"
    /\ UNCHANGED <<env, access_key, secret_key, gen_token, create_auth,
                   create_response, creations, gresult>>
    /\ UNCHANGED poll_vars
    /\ UNCHANGED gen_frame

\* the download raised: caught by the except
DownloadFailed ==
    /\ gpc = "download"
    /\ download_response.kind # "saved"
    /\ ExceptReturn(DownloadErrorText(download_response.kind))
    /\ UNCHANGED <<env, access_key, secret_key, gen_token, create_auth,
                   create_response, creations, downloads, download_response>>
    /\ UNCHANGED poll_vars
    /\ UNCHANGED gen_frame

\* the file is written: add local_path and path, return video_result
DownloadSaved ==
    /\ gpc = "download"
    /\ download_response.kind = "saved"
    /\ gresult' = SavedResult(result)
    /\ gpc' = "returned"
    /\ UNCHANGED <<env, access_key, secret_key, gen_token, create_auth,
                   create_response, creations, downloads, download_response>>
    /\ UNCHANGED poll_vars
    /\ UNCHANGED gen_frame

SubmitNext ==
    \/ Construct
    \/ GenToken
    \/ ImageResolved
    \/ ImageFailed
    \/ MaskResolved
    \/ MaskFailed
    \/ SendCreate
    \/ CreateFailed

GenNext ==
    \/ Construct
    \/ GenToken
    \/ ImageResolved
    \/ ImageFailed
    \/ MaskResolved
    \/ MaskFailed
    \/ SendCreate
    \/ CreateFailed
    \/ CallPoll
    \/ StartPolling
    \/ SendStatusRequest
    \/ PollRaised
    \/ ProviderError
    \/ TaskFailed
    \/ TaskSucceedNoVideo
    \/ TaskSucceed
    \/ StillProcessing
    \/ ReturnTimeout
    \/ ReturnPollResult
    \/ MakeDirFailed
    \/ SendDownload
    \/ DownloadFailed
    \/ DownloadSaved

(***************************************************************************)
(* merge_audio_video, with get_duration and sync_audio_to_video inlined    *)
(***************************************************************************)
MaxDuration == 5

\* the durations ffprobe prints, in seconds
Durations == 0..MaxDuration

PathStates == {"missing", "file", "dir"}

\* os.path.exists(path)
Exists(path_state) == path_state # "missing"

\* os.path.isfile(path)
IsFile(path_state) == path_state = "file"

\* os.path.exists(output_path) and not overwrite
OutputBlocked_WhenOverwriting(exists, ow) == exists /\ ow
OutputBlocked(exists, ow) == exists /\ ~ow

MergeFailure(error_message) == [success |-> FALSE, error |-> error_message]

VideoMissingResult == MergeFailure("video file does not exist")
AudioMissingResult == MergeFailure("audio file does not exist")
OutputExistsResult == MergeFailure("output file already exists")

\* the dict of a finished merge; speed_ratio = audio_duration / video_duration
MergeSuccess(vd, ad, od) ==
    [success |-> TRUE, input_video |-> vd, input_audio |-> ad, output |-> od,
     speed_ratio |-> Frac(ad, vd)]

\* the tempo of a chain of atempo filters: audio_in.filter(name, factor)
\* applied for every element in turn
RECURSIVE ChainTempo(_)
ChainTempo(filters) ==
    IF filters = <<>> THEN One
    ELSE Mul(Head(filters), ChainTempo(Tail(filters)))

\* 'shortest': the output ends with the shorter stream
Shortest(a, b) == IF Lt(b, a) THEN b ELSE a

\* the length of the file ffmpeg writes: the video stream copied, the audio
\* stream played at the tempo of the chain, cut at the shorter of the two
OutputDuration_Concatenated(video_len, audio_len, filters) ==
    Frac(video_len + audio_len, 1)
OutputDuration(video_len, audio_len, filters) ==
    Shortest(Frac(video_len, 1),
             Div(Frac(audio_len, 1), ChainTempo(filters)))

MergeIdle ==
    /\ mpc = "idle"
    /\ video_file = "file"
    /\ audio_file = "file"
    /\ output_exists = FALSE
    /\ overwrite = FALSE
    /\ video_duration = <<>>
    /\ audio_duration = <<>>
    /\ dv = <<>>
    /\ da = <<>>
    /\ probes = 0
    /\ transcodes = 0
    /\ mresult = NotReturned
    /\ output_dir_exists = TRUE
    /\ dir_created = FALSE
    /\ output_written = "untouched"
    /\ output_duration = <<>>

\* an existing output file lies in an existing directory
MergeInit ==
    /\ mpc = "call"
    /\ video_file \in PathStates
    /\ audio_file \in PathStates
    /\ output_exists \in BOOLEAN
    /\ overwrite \in BOOLEAN
    /\ video_duration = <<>>
    /\ audio_duration = <<>>
    /\ dv = <<>>
    /\ da = <<>>
    /\ probes = 0
    /\ transcodes = 0
    /\ mresult = NotReturned
    /\ output_dir_exists \in BOOLEAN
    /\ output_exists => output_dir_exists
    /\ dir_created = FALSE
    /\ output_written = "untouched"
    /\ output_duration = <<>>

\* a return statement of merge_audio_video
MergeReturn(value) ==
    /\ mresult' = value
    /\ mpc' = "returned"

\* if not os.path.exists(video_path): return ...
VideoMissing ==
    /\ mpc = "call"
    /\ ~Exists(video_file)
    /\ MergeReturn(VideoMissingResult)
    /\ UNCHANGED <<video_file, audio_file, output_exists, overwrite,
                   video_duration, audio_duration, dv, da, probes,
                   transcodes, output_dir_exists, dir_created,
                   output_written, output_duration>>
    /\ UNCHANGED merge_frame

\* if not os.path.exists(audio_path): return ...
AudioMissing ==
    /\ mpc = "call"
    /\ Exists(video_file)
    /\ ~Exists(audio_file)
    /\ MergeReturn(AudioMissingResult)
    /\ UNCHANGED <<video_file, audio_file, output_exists, overwrite,
                   video_duration, audio_duration, dv, da, probes,
                   transcodes, output_dir_exists, dir_created,
                   output_written, output_duration>>
    /\ UNCHANGED merge_frame

\* if os.path.exists(output_path) and not overwrite: return ...
OutputExists ==
    /\ mpc = "call"
    /\ Exists(video_file)
    /\ Exists(audio_file)
    /\ OutputBlocked(output_exists, overwrite)
    /\ MergeReturn(OutputExistsResult)
    /\ UNCHANGED <<video_file, audio_file, output_exists, overwrite,
                   video_duration, audio_duration, dv, da, probes,
                   transcodes, output_dir_exists, dir_created,
                   output_written, output_duration>>
    /\ UNCHANGED merge_frame

\* the three checks pass: enter the try block
EnterTry ==
    /\ mpc = "call"
    /\ Exists(video_file)
    /\ Exists(audio_file)
    /\ ~OutputBlocked(output_exists, overwrite)
    /\ mpc' = "probe_video"
    /\ UNCHANGED <<video_file, audio_file, output_exists, overwrite,
                   video_duration, audio_duration, dv, da, probes,
                   transcodes, mresult, output_dir_exists, dir_created,
                   output_written, output_duration>>
    /\ UNCHANGED merge_frame

\* the get_duration calls of merge_audio_video and sync_audio_to_video, in
\* order, before the output exists
ProbePositions == {"probe_video", "probe_audio", "sync_video", "sync_audio"}

ProbedFile(position) ==
    IF position \in {"probe_video", "sync_video"} THEN video_file
    ELSE audio_file

AfterProbe(position) ==
    IF position = "probe_video" THEN "probe_audio"
    ELSE IF position = "probe_audio" THEN "makedirs"
    ELSE IF position = "sync_video" THEN "sync_audio"
    ELSE "ratio"

\* the call does not change its inputs: the second measurement of a file
\* gives what the first one gave
Remeasured(position, d) ==
    /\ position = "sync_video" => d = video_duration[1]
    /\ position = "sync_audio" => d = audio_duration[1]

\* except Exception as e: return {"success": False, "error": str(e)}
MergeExcept_Propagates(error_message) ==
    /\ mresult' = NotReturned
    /\ mpc' = "raised"
MergeExcept(error_message) == MergeReturn(MergeFailure(error_message))

\* get_duration: not os.path.isfile(path) raises FileNotFoundError
ProbeNotAFile ==
    /\ mpc \in ProbePositions
    /\ ~IsFile(ProbedFile(mpc))
    /\ MergeExcept("File not found")
    /\ UNCHANGED <<video_file, audio_file, output_exists, overwrite,
                   video_duration, audio_duration, dv, da, probes,
                   transcodes, output_dir_exists, dir_created,
                   output_written, output_duration>>
    /\ UNCHANGED merge_frame

\* get_duration: ffprobe exits non-zero (RuntimeError) or prints no number
\* (ValueError)
ProbeFailed ==
    /\ mpc \in ProbePositions
    /\ IsFile(ProbedFile(mpc))
    /\ probes' = probes + 1
    /\ \E error_message \in {"ffprobe error", "could not convert"} :
          MergeExcept(error_message)
    /\ UNCHANGED <<video_file, audio_file, output_exists, overwrite,
                   video_duration, audio_duration, dv, da, transcodes,
                   output_dir_exists, dir_created, output_written,
                   output_duration>>
    /\ UNCHANGED merge_frame

\* get_duration returns float(proc.stdout.strip())
ProbeMeasured ==
    /\ mpc \in ProbePositions
    /\ IsFile(ProbedFile(mpc))
    /\ probes' = probes + 1
    /\ \E d \in Durations :
          /\ Remeasured(mpc, d)
          /\ video_duration' =
                IF mpc = "probe_video" THEN <<d>> ELSE video_duration
          /\ audio_duration' =
                IF mpc = "probe_audio" THEN <<d>> ELSE audio_duration
          /\ dv' = IF mpc = "sync_video" THEN <<d>> ELSE dv
          /\ da' = IF mpc = "sync_audio" THEN <<d>> ELSE da
    /\ mpc' = AfterProbe(mpc)
    /\ UNCHANGED <<video_file, audio_file, output_exists, overwrite,
                   transcodes, mresult, output_dir_exists, dir_created,
                   output_written, output_duration>>
    /\ UNCHANGED merge_frame

\* if output_dir and not os.path.exists(output_dir): os.makedirs(output_dir)
MakeDirs ==
    /\ mpc = "makedirs"
    /\ output_dir_exists' = TRUE
    /\ dir_created' = ~output_dir_exists
    /\ mpc' = "sync_video"
    /\ UNCHANGED <<video_file, audio_file, output_exists, overwrite,
                   video_duration, audio_duration, dv, da, probes,
                   transcodes, mresult, output_written, output_duration>>
    /\ UNCHANGED merge_frame

\* os.makedirs(output_dir) raises OSError
MakeDirsFailed ==
    /\ mpc = "makedirs"
    /\ ~output_dir_exists
    /\ MergeExcept("cannot create directory")
    /\ UNCHANGED <<video_file, audio_file, output_exists, overwrite,
                   video_duration, audio_duration, dv, da, probes,
                   transcodes, output_dir_exists, dir_created,
                   output_written, output_duration>>
    /\ UNCHANGED merge_frame

\* ratio = da / dv with dv = 0.0 raises ZeroDivisionError
RatioDivisionByZero ==
    /\ mpc = "ratio"
    /\ dv = <<0>>
    /\ MergeExcept("float division by zero")
    /\ UNCHANGED <<video_file, audio_file, output_exists, overwrite,
                   video_duration, audio_duration, dv, da, probes,
                   transcodes, output_dir_exists, dir_created,
                   output_written, output_duration>>
    /\ UNCHANGED merge_frame

\* ratio = da / dv; filters = make_atempo_chain(ratio) is entered
PlanStart ==
    /\ mpc = "ratio"
    /\ dv # <<0>>
    /\ ratio0' = Frac(da[1], dv[1])
    /\ ratio' = Frac(da[1], dv[1])
    /\ parts' = <<>>
    /\ tpc' = "while_above"
    /\ mpc' = "planning"
    /\ UNCHANGED <<video_file, audio_file, output_exists, overwrite,
                   video_duration, audio_duration, dv, da, probes,
                   transcodes, mresult, output_dir_exists, dir_created,
                   output_written, output_duration>>
    /\ UNCHANGED <<poll_vars, gen_vars, token_vars, jobs_vars, app_vars>>

\* make_atempo_chain returned: build the filter graph
PlanBuilt ==
    /\ mpc = "planning"
    /\ tpc = "returned"
    /\ mpc' = "transcode"
    /\ UNCHANGED <<video_file, audio_file, output_exists, overwrite,
                   video_duration, audio_duration, dv, da, probes,
                   transcodes, mresult, output_dir_exists, dir_created,
                   output_written, output_duration>>
    /\ UNCHANGED merge_frame

\* the states of the output path after ffmpeg has run
WrittenOver(existed) == IF existed THEN "replaced" ELSE "created"

\* ffmpeg.output(...).run(overwrite_output=True) raises ffmpeg.Error, with
\* or without a partial file left behind
TranscodeFailed_Swallowed ==
    /\ mpc = "transcode"
    /\ transcodes' = transcodes + 1
    /\ output_exists' = TRUE
    /\ output_written' = "partial"
    /\ \E d \in Durations : output_duration' = <<Frac(d, 1)>>
    /\ mpc' = "probe_output"
    /\ UNCHANGED <<video_file, audio_file, overwrite, video_duration,
                   audio_duration, dv, da, probes, mresult,
                   output_dir_exists, dir_created>>
    /\ UNCHANGED merge_frame
TranscodeFailed ==
    /\ mpc = "transcode"
    /\ transcodes' = transcodes + 1
    /\ \E written \in BOOLEAN :
          /\ output_exists' = (output_exists \/ written)
          /\ output_written' = IF written THEN "partial" ELSE "untouched"
    /\ MergeExcept("ffmpeg error")
    /\ UNCHANGED <<video_file, audio_file, overwrite, video_duration,
                   audio_duration, dv, da, probes, output_dir_exists,
                   dir_created, output_duration>>
    /\ UNCHANGED merge_frame

\* ffmpeg.output(...).run(overwrite_output=True) writes the output
Transcoded ==
    /\ mpc = "transcode"
    /\ transcodes' = transcodes + 1
    /\ output_exists' = TRUE
    /\ output_written' = WrittenOver(output_exists)
    /\ output_duration' = <<OutputDuration(dv[1], da[1], parts)>>
    /\ mpc' = "probe_output"
    /\ UNCHANGED <<video_file, audio_file, overwrite, video_duration,
                   audio_duration, dv, da, probes, mresult,
                   output_dir_exists, dir_created>>
    /\ UNCHANGED merge_frame

\* output_duration = get_duration(output_path) raises
OutputProbeFailed ==
    /\ mpc = "probe_output"
    /\ probes' = probes + 1
    /\ MergeExcept("ffprobe error")
    /\ UNCHANGED <<video_file, audio_file, output_exists, overwrite,
                   video_duration, audio_duration, dv, da, transcodes,
                   output_dir_exists, dir_created, output_written,
                   output_duration>>
    /\ UNCHANGED merge_frame

\* return {"success": True, ...}
MergeDone ==
    /\ mpc = "probe_output"
    /\ probes' = probes + 1
    /\ MergeReturn(MergeSuccess(video_duration[1], audio_duration[1],
                                output_duration[1]))
    /\ UNCHANGED <<video_file, audio_file, output_exists, overwrite,
                   video_duration, audio_duration, dv, da, transcodes,
                   output_dir_exists, dir_created, output_written,
                   output_duration>>
    /\ UNCHANGED merge_frame

\* another process creates the output file after the check of
\* merge_audio_video and before ffmpeg opens it
OtherProcessCreatesOutput ==
    /\ mpc \in {"probe_video", "probe_audio", "makedirs", "sync_video",
                "sync_audio", "ratio", "planning", "transcode"}
    /\ ~output_exists
    /\ output_exists' = TRUE
    /\ output_dir_exists' = TRUE
    /\ UNCHANGED <<mpc, video_file, audio_file, overwrite, video_duration,
                   audio_duration, dv, da, probes, transcodes, mresult,
                   dir_created, output_written, output_duration>>
    /\ UNCHANGED merge_frame

MergeNext ==
    \/ VideoMissing
    \/ AudioMissing
    \/ OutputExists
    \/ EnterTry
    \/ ProbeNotAFile
    \/ ProbeFailed
    \/ ProbeMeasured
    \/ MakeDirs
    \/ MakeDirsFailed
    \/ RatioDivisionByZero
    \/ PlanStart
    \/ PeelTwo
    \/ LeaveAbove
    \/ PeelHalf
    \/ AppendRemainder
    \/ PlanBuilt
    \/ TranscodeFailed
    \/ Transcoded
    \/ OutputProbeFailed
    \/ MergeDone
    \/ OtherProcessCreatesOutput

(***************************************************************************)
(* KlingGenerator._generate_jwt_token: the payload and the clock           *)
(***************************************************************************)
MaxClock == 12

TokenLifetime == 1800
NotBeforeSkew == 5

\* {"iss": self.access_key, "exp": ..., "nbf": ...}
Payload(e, n) == [iss |-> "ak", exp |-> e, nbf |-> n]

TokenIdle ==
    /\ now = 0
    /\ jpc = "idle"
    /\ exp = <<>>
    /\ nbf = <<>>
    /\ token = <<>>

\* a call of _generate_jwt_token begins at some second of the clock
TokenInit ==
    /\ now \in 0..MaxClock
    /\ jpc = "exp"
    /\ exp = <<>>
    /\ nbf = <<>>
    /\ token = <<>>

\* a second passes while the function runs or between two calls
Tick ==
    /\ jpc # "idle"
    /\ now < MaxClock
    /\ now' = now + 1
    /\ UNCHANGED <<jpc, exp, nbf, token>>
    /\ UNCHANGED token_frame

\* "exp": int(time.time()) + 1800
ReadExp ==
    /\ jpc = "exp"
    /\ exp' = <<now + TokenLifetime>>
    /\ jpc' = "nbf"
    /\ UNCHANGED <<now, nbf, token>>
    /\ UNCHANGED token_frame

\* "nbf": int(time.time()) - 5
ReadNbf ==
    /\ jpc = "nbf"
    /\ nbf' = <<now - NotBeforeSkew>>
    /\ jpc' = "sign"
    /\ UNCHANGED <<now, exp, token>>
    /\ UNCHANGED token_frame

\* encode header and payload, sign, return token; the next call follows
SignAndReturn ==
    /\ jpc = "sign"
    /\ token' = <<Payload(exp[1], nbf[1])>>
    /\ exp' = <<>>
    /\ nbf' = <<>>
    /\ jpc' = "exp"
    /\ UNCHANGED now
    /\ UNCHANGED token_frame

TokenNext ==
    \/ Tick
    \/ ReadExp
    \/ ReadNbf
    \/ SignAndReturn

(***************************************************************************)
(* Two generate_video calls interleaved on the one KlingGenerator instance *)
(* of the process.  Each call has its own local variables; the instance    *)
(* fields are only read.                                                   *)
(***************************************************************************)
Jobs == {1, 2}

\* the model follows each call for at most MaxJobPolls status requests
MaxJobPolls == 2

\* the status responses a job's requests receive
JobResponses ==
    {[kind |-> "network_error"], AuthErrorBody(<<MsgTokenExpired>>),
     Body(<<1>>, <<MsgBusy>>, <<>>, <<>>, <<>>),
     Body(<<0>>, <<>>, <<"processing">>, <<>>, <<>>),
     Body(<<0>>, <<>>, <<"succeed">>, <<>>, <<ResultWith(<< <<Video1>> >>)>>)}
    \cup FailedBodies

\* the locals of a call before its first statement
NewJob ==
    [pc |-> "token", create_token |-> 0, jwt_token |-> 0, headers |-> 0,
     attempt |-> 0, response |-> NoResponse, handled |-> NoResponse,
     result |-> NotReturned]

JobsIdle ==
    /\ jobs = [j \in Jobs |-> [NewJob EXCEPT !.pc = "idle"]]
    /\ jobs_issued = 0

JobsInit ==
    /\ jobs = [j \in Jobs |-> NewJob]
    /\ jobs_issued = 0

\* jwt_token = self._generate_jwt_token();
\* headers["Authorization"] = f"Bearer {jwt_token}": assignments to locals
Refreshed_OnInstance(j, t) ==
    [k \in Jobs |-> [jobs[k] EXCEPT !.jwt_token = t, !.headers = t]]
Refreshed(j, t) == [jobs EXCEPT ![j].jwt_token = t, ![j].headers = t]

\* time.sleep(poll_interval) and the next iteration, in call j
JobContinues(base, j) ==
    [base EXCEPT ![j].attempt = @ + 1,
                 ![j].handled = jobs[j].response,
                 ![j].response = NoResponse,
                 ![j].pc = "request"]

\* a return statement of call j
JobReturns(j, value) ==
    [jobs EXCEPT ![j].result = value,
                 ![j].handled = jobs[j].response,
                 ![j].response = NoResponse,
                 ![j].pc = "returned"]

\* generate_video: jwt_token = self._generate_jwt_token(); headers = {...}
JobToken ==
    /\ \E j \in Jobs :
          /\ jobs[j].pc = "token"
          /\ jobs' = [jobs EXCEPT ![j].create_token = jobs_issued + 1,
                                  ![j].pc = "create"]
    /\ jobs_issued' = jobs_issued + 1
    /\ UNCHANGED jobs_frame

\* generate_video: the creation request is rejected
JobCreateFailed ==
    /\ \E j \in Jobs :
          /\ jobs[j].pc = "create"
          /\ jobs' = [jobs EXCEPT
                         ![j].result = ErrorResult(
                             "Failed to get video generation task ID"),
                         ![j].pc = "returned"]
    /\ UNCHANGED jobs_issued
    /\ UNCHANGED jobs_frame

\* generate_video: the creation request is accepted, and
\* _poll_task_status builds its own token and headers
JobStartPolling ==
    /\ \E j \in Jobs :
          /\ jobs[j].pc = "create"
          /\ jobs' = [Refreshed(j, jobs_issued + 1) EXCEPT ![j].pc = "request"]
    /\ jobs_issued' = jobs_issued + 1
    /\ UNCHANGED jobs_frame

\* response = requests.get(url, headers=headers) of call j
JobSendStatusRequest ==
    /\ \E j \in Jobs :
          /\ jobs[j].pc = "request"
          /\ jobs[j].attempt < MaxJobPolls
          /\ \E r \in JobResponses :
                jobs' = [jobs EXCEPT ![j].response = r, ![j].pc = "response"]
    /\ UNCHANGED jobs_issued
    /\ UNCHANGED jobs_frame

\* except Exception: sleep, next attempt
JobPollRaised ==
    /\ \E j \in Jobs :
          /\ jobs[j].pc = "response"
          /\ Raises(jobs[j].response)
          /\ jobs' = JobContinues(jobs, j)
    /\ UNCHANGED jobs_issued
    /\ UNCHANGED jobs_frame

\* code != 0 and the message looks like an authentication error: new token
JobRefreshesToken ==
    /\ \E j \in Jobs :
          /\ jobs[j].pc = "response"
          /\ ~Raises(jobs[j].response)
          /\ CodeNotZero(jobs[j].response)
          /\ LooksLikeAuthError(Get(jobs[j].response.message,
                                    MsgUnknownError))
          /\ jobs' = JobContinues(Refreshed(j, jobs_issued + 1), j)
    /\ jobs_issued' = jobs_issued + 1
    /\ UNCHANGED jobs_frame

\* code != 0 with another message: sleep, next attempt
JobProviderError ==
    /\ \E j \in Jobs :
          /\ jobs[j].pc = "response"
          /\ ~Raises(jobs[j].response)
          /\ CodeNotZero(jobs[j].response)
          /\ ~LooksLikeAuthError(Get(jobs[j].response.message,
                                     MsgUnknownError))
          /\ jobs' = JobContinues(jobs, j)
    /\ UNCHANGED jobs_issued
    /\ UNCHANGED jobs_frame

\* task_status == "failed"
JobTaskFailed ==
    /\ \E j \in Jobs :
          /\ jobs[j].pc = "response"
          /\ ~Raises(jobs[j].response)
          /\ ~CodeNotZero(jobs[j].response)
          /\ IsFailed(TaskStatus(jobs[j].response))
          /\ jobs' = JobReturns(j, FailedResult(jobs[j].response))
    /\ UNCHANGED jobs_issued
    /\ UNCHANGED jobs_frame

\* task_status == "succeed" with a video
JobTaskSucceed ==
    /\ \E j \in Jobs :
          /\ jobs[j].pc = "response"
          /\ ~Raises(jobs[j].response)
          /\ ~CodeNotZero(jobs[j].response)
          /\ ~IsFailed(TaskStatus(jobs[j].response))
          /\ IsSucceed(TaskStatus(jobs[j].response))
          /\ Videos(jobs[j].response) # <<>>
          /\ jobs' = JobReturns(j, CompletedResult(Videos(jobs[j].response)))
    /\ UNCHANGED jobs_issued
    /\ UNCHANGED jobs_frame

\* neither: sleep, next attempt
JobStillProcessing ==
    /\ \E j \in Jobs :
          /\ jobs[j].pc = "response"
          /\ ~Raises(jobs[j].response)
          /\ ~CodeNotZero(jobs[j].response)
          /\ ~IsFailed(TaskStatus(jobs[j].response))
          /\ ~IsSucceed(TaskStatus(jobs[j].response))
          /\ jobs' = JobContinues(jobs, j)
    /\ UNCHANGED jobs_issued
    /\ UNCHANGED jobs_frame

JobsNext ==
    \/ JobToken
    \/ JobCreateFailed
    \/ JobStartPolling
    \/ JobSendStatusRequest
    \/ JobPollRaised
    \/ JobRefreshesToken
    \/ JobProviderError
    \/ JobTaskFailed
    \/ JobTaskSucceed
    \/ JobStillProcessing

(***************************************************************************)
(* app.py: get_project, save_project, the /video/generate handler and the  *)
(* speech handler, as two requests on one project                          *)
(***************************************************************************)
\* a project as json.loads returns it: the fields the two handlers use
Project(script, video, speech) ==
    [script |-> script, video |-> video, speech |-> speech]

\* the video record of an earlier, completed generation
EarlierVideo == SavedResult(CompletedResult(<<Video2>>))

\* the projects in Redis when the requests arrive
StoredProjects ==
    {Project(sc, v, sp) :
        sc \in {"", "script"},
        v \in {<<>>, <<EarlierVideo>>},
        sp \in {<<>>, <<"speech-0.mp3">>}}

NoProject == Project("", <<>>, <<>>)

\* what video_generator.generate_video returns to the handler
GenerateResults ==
    {SavedResult(CompletedResult(<<Video1>>)),
     CompletedResult(<<Video1>>),
     CompletedResult(<<VideoNoUrl>>),
     ErrorResult("Failed to get video generation task ID"),
     ErrorResult("404 Client Error"),
     FailedResult(Body(<<0>>, <<>>, <<"failed">>, <<"content rejected">>,
                       <<>>)),
     TimeoutResult}

\* 'url' in video_result and video_result['url'].startswith('/api/') raises
\* AttributeError when the url is None
UrlCheckRaises(value) ==
    IF "url" \in DOMAIN value THEN value.url = None ELSE FALSE

AppIdle ==
    /\ stored = NoProject
    /\ vpc = "idle"
    /\ vproject = NoProject
    /\ app_video_result = NotReturned
    /\ vstatus = 0
    /\ spc = "idle"
    /\ sproject = NoProject
    /\ sstatus = 0

AppInit ==
    /\ stored \in StoredProjects
    /\ vpc = "get"
    /\ vproject = NoProject
    /\ app_video_result = NotReturned
    /\ vstatus = 0
    /\ spc = "get"
    /\ sproject = NoProject
    /\ sstatus = 0

\* project = get_project(project_id), with a script
VideoGetProject ==
    /\ vpc = "get"
    /\ stored.script # ""
    /\ vproject' = stored
    /\ vpc' = "generate"
    /\ UNCHANGED <<stored, app_video_result, vstatus, spc, sproject, sstatus>>
    /\ UNCHANGED app_frame

\* if not project.get('script'): return ..., 400
VideoRejected ==
    /\ vpc = "get"
    /\ stored.script = ""
    /\ vproject' = stored
    /\ vstatus' = 400
    /\ vpc' = "done"
    /\ UNCHANGED <<stored, app_video_result, spc, sproject, sstatus>>
    /\ UNCHANGED app_frame

\* video_result = video_generator.generate_video(...)
VideoGenerated ==
    /\ vpc = "generate"
    /\ \E value \in GenerateResults : app_video_result' = value
    /\ vpc' = "save"
    /\ UNCHANGED <<stored, vproject, vstatus, spc, sproject, sstatus>>
    /\ UNCHANGED app_frame

\* os.makedirs, redis_client.keys(...)[0] or redis_client.get raises before
\* the generator is called: except Exception: return ..., 500
VideoSetupFailed ==
    /\ vpc = "generate"
    /\ vstatus' = 500
    /\ vpc' = "done"
    /\ UNCHANGED <<stored, vproject, app_video_result, spc, sproject, sstatus>>
    /\ UNCHANGED app_frame

\* the url check raises: except Exception: return ..., 500
VideoUrlCheckFailed ==
    /\ vpc = "save"
    /\ UrlCheckRaises(app_video_result)
    /\ vstatus' = 500
    /\ vpc' = "done"
    /\ UNCHANGED <<stored, vproject, app_video_result, spc, sproject, sstatus>>
    /\ UNCHANGED app_frame

\* project['video'] = video_result; save_project(project); return 200
VideoSave ==
    /\ vpc = "save"
    /\ ~UrlCheckRaises(app_video_result)
    /\ vproject' = [vproject EXCEPT !.video = <<app_video_result>>]
    /\ stored' = [vproject EXCEPT !.video = <<app_video_result>>]
    /\ vstatus' = 200
    /\ vpc' = "done"
    /\ UNCHANGED <<app_video_result, spc, sproject, sstatus>>
    /\ UNCHANGED app_frame

\* generate_speech: project = get_project(project_id), with a script
SpeechGetProject ==
    /\ spc = "get"
    /\ stored.script # ""
    /\ sproject' = stored
    /\ spc' = "tts"
    /\ UNCHANGED <<stored, vpc, vproject, app_video_result, vstatus, sstatus>>
    /\ UNCHANGED app_frame

\* generate_speech: if not project.get('script'): return ..., 400
SpeechRejected ==
    /\ spc = "get"
    /\ stored.script = ""
    /\ sproject' = stored
    /\ sstatus' = 400
    /\ spc' = "done"
    /\ UNCHANGED <<stored, vpc, vproject, app_video_result, vstatus>>
    /\ UNCHANGED app_frame

\* generate_speech: the TTS client fails or raises: nothing is saved
SpeechFailed ==
    /\ spc = "tts"
    /\ sstatus' = 500
    /\ spc' = "done"
    /\ UNCHANGED <<stored, vpc, vproject, app_video_result, vstatus, sproject>>
    /\ UNCHANGED app_frame

\* generate_speech: project['speech'].append({...}); save_project(project)
SpeechSave ==
    /\ spc = "tts"
    /\ sproject' = [sproject EXCEPT !.speech = Append(@, "speech-1.mp3")]
    /\ stored' = [sproject EXCEPT !.speech = Append(@, "speech-1.mp3")]
    /\ sstatus' = 200
    /\ spc' = "done"
    /\ UNCHANGED <<vpc, vproject, app_video_result, vstatus>>
    /\ UNCHANGED app_frame

AppNext ==
    \/ VideoGetProject
    \/ VideoRejected
    \/ VideoGenerated
    \/ VideoSetupFailed
    \/ VideoUrlCheckFailed
    \/ VideoSave
    \/ SpeechGetProject
    \/ SpeechRejected
    \/ SpeechFailed
    \/ SpeechSave

(***************************************************************************)
(* Specifications.  SpecTempo runs make_atempo_chain on every ratio of     *)
(* Ratios; Spec runs one _poll_task_status call against every sequence of  *)
(* provider responses.                                                     *)
(***************************************************************************)
TempoIdle ==
    /\ ratio0 = One
    /\ ratio = One
    /\ parts = <<>>
    /\ tpc = "idle"

InitTempo == TempoInit /\ PollInit /\ GenIdle /\ MergeIdle /\ TokenIdle
    /\ AppIdle
    /\ JobsIdle

SpecTempo == InitTempo /\ [][TempoNext]_vars

Init == PollInit /\ TempoIdle /\ GenIdle /\ MergeIdle /\ TokenIdle
    /\ AppIdle
    /\ JobsIdle

Spec == Init /\ [][PollNext]_vars

\* __init__ and one generate_video call, with both keys configured
InitGen == GenInit /\ KeysConfigured /\ PollIdle /\ TempoIdle /\ MergeIdle
    /\ TokenIdle
    /\ AppIdle
    /\ JobsIdle

SpecGen == InitGen /\ [][GenNext]_vars

\* __init__ and generate_video up to the creation request, for every
\* configuration of the two keys
InitSubmit == GenInit /\ PollIdle /\ TempoIdle /\ MergeIdle /\ TokenIdle
    /\ AppIdle
    /\ JobsIdle

SpecSubmit == InitSubmit /\ [][SubmitNext]_vars

\* one merge_audio_video call
InitMerge == MergeInit /\ GenIdle /\ PollIdle /\ TempoIdle /\ TokenIdle
    /\ AppIdle
    /\ JobsIdle

SpecMerge == InitMerge /\ [][MergeNext]_vars

\* calls of _generate_jwt_token under a running clock
InitToken == TokenInit /\ TempoIdle /\ PollIdle /\ GenIdle /\ MergeIdle
    /\ AppIdle
    /\ JobsIdle

SpecToken == InitToken /\ [][TokenNext]_vars

\* two interleaved generate_video calls
InitJobs == JobsInit /\ TempoIdle /\ PollIdle /\ GenIdle /\ MergeIdle
    /\ AppIdle
    /\ TokenIdle

SpecJobs == InitJobs /\ [][JobsNext]_vars

\* a /video/generate request and a speech request on one project
InitApp == AppInit /\ TempoIdle /\ PollIdle /\ GenIdle /\ MergeIdle
    /\ TokenIdle /\ JobsIdle

SpecApp == InitApp /\ [][AppNext]_vars

\* one call of either function of the orchestration boundary
InitBoundary == InitGen \/ InitMerge

BoundaryNext == GenNext \/ MergeNext

SpecBoundary == InitBoundary /\ [][BoundaryNext]_vars


(***************************************************************************)
(* Properties of make_atempo_chain (checked under SpecTempo).              *)
(***************************************************************************)
RECURSIVE Product(_)
Product(factors) ==
    IF factors = <<>> THEN One
    ELSE Mul(Head(factors), Product(Tail(factors)))

\* 0.5 <= f <= 2.0
InRange(f) == ~Lt(f, Half) /\ ~Gt(f, Two)

\* C1: for every ratio r > 0 the returned factors multiply to r and every
\* factor lies in [0.5, 2.0].
C1_ProductAndRange ==
    tpc = "returned" =>
        /\ Eq(Product(parts), ratio0)
        /\ \A i \in 1..Len(parts) : InRange(parts[i])

C1_Witness ==
    /\ tpc = "returned"
    /\ Len(parts) >= 3
    /\ Lt(ratio0, Half)

\* C2: a ratio in [0.5, 2.0], the ends included, gives the one-element plan
\* [r], and no returned plan is empty.
C2_SingleElementPlan ==
    tpc = "returned" =>
        /\ Len(parts) >= 1
        /\ InRange(ratio0) => parts = <<ratio0>>

C2_Witness ==
    /\ tpc = "returned"
    /\ ratio0 = Two
    /\ parts = <<Two>>

\* r / 2^k and r * 2^k
Halved(r, k) == Frac(r.n, r.d * 2^k)
Doubled(r, k) == Frac(r.n * 2^k, r.d)

\* C3: the plan is the greedy peel.  For r > 2.0 it is k factors 2.0 and
\* then r/2^k, k being the least k with r/2^k <= 2.0; for r < 0.5 it is k
\* factors 0.5 and then r*2^k, k being the least k with r*2^k >= 0.5; only
\* the last factor differs from the peeled one, and 2.0 and 0.5 peels never
\* mix.  5.0 gives [2.0, 2.0, 1.25] and 0.2 gives [0.5, 0.5, 0.8].
C3_GreedyPeel ==
    tpc = "returned" =>
        LET k == Len(parts) - 1 IN
        /\ k >= 0
        /\ Gt(ratio0, Two) =>
              /\ \A i \in 1..k : parts[i] = Two
              /\ Eq(parts[k + 1], Halved(ratio0, k))
              /\ ~Gt(Halved(ratio0, k), Two)
              /\ \A j \in 0..(k - 1) : Gt(Halved(ratio0, j), Two)
        /\ Lt(ratio0, Half) =>
              /\ \A i \in 1..k : parts[i] = Half
              /\ Eq(parts[k + 1], Doubled(ratio0, k))
              /\ ~Lt(Doubled(ratio0, k), Half)
              /\ \A j \in 0..(k - 1) : Lt(Doubled(ratio0, j), Half)
        /\ InRange(ratio0) => k = 0
        /\ \A i, j \in 1..k : parts[i] = parts[j] /\ parts[i] \in {Two, Half}
        /\ ratio0 = Frac(5, 1) => parts = <<Two, Two, Frac(5, 4)>>
        /\ ratio0 = Frac(1, 5) => parts = <<Half, Half, Frac(4, 5)>>

C3_Witness ==
    /\ tpc = "returned"
    /\ ratio0 = Frac(5, 1)
    /\ parts = <<Two, Two, Frac(5, 4)>>

(***************************************************************************)
(* Properties of _poll_task_status (checked under Spec).                   *)
(***************************************************************************)
\* the body has code 0 and data.task_status is the given string
ReportsStatus(r, status) ==
    /\ r.kind = "json"
    /\ r.code = <<0>>
    /\ r.task_status = <<status>>

\* data.task_result.videos of a body, when it is a list
ListedVideos(r) ==
    IF r.task_result = <<>> THEN <<>>
    ELSE IF r.task_result[1].is_null THEN <<>>
    ELSE IF r.task_result[1].videos = <<>> THEN <<>>
    ELSE r.task_result[1].videos[1]

\* status "succeed" with a non-empty video list
SucceedWithVideo(r) ==
    /\ ReportsStatus(r, "succeed")
    /\ ListedVideos(r) # <<>>

\* status "succeed" and no video in the result
SucceedWithoutVideo(r) ==
    /\ ReportsStatus(r, "succeed")
    /\ ListedVideos(r) = <<>>

\* a poll that yields a terminal status
TerminalPoll ==
    /\ pc = "response"
    /\ \/ ReportsStatus(response, "failed")
       \/ SucceedWithVideo(response)
       \/ /\ SucceedWithoutVideo(response)
          /\ response.task_result # <<NullResult>>

\* C4: when the first k-1 polls were non-terminal (attempt = k-1) and poll k
\* reports "succeed" with a non-empty video list, the loop returns the
\* completed result with the URL and duration of the first listed video,
\* having sent exactly k status requests.
C4_SucceedOnPollK ==
    [][(pc = "response" /\ SucceedWithVideo(response)) =>
          /\ pc' = "done"
          /\ returned_at' = "completed"
          /\ result' = [status |-> "completed",
                        url |-> Get(ListedVideos(response)[1].url, None),
                        duration |->
                            Get(ListedVideos(response)[1].duration, None)]
          /\ requests = attempt + 1
          /\ requests' = requests]_vars

C4_Witness ==
    /\ pc = "done"
    /\ returned_at = "completed"
    /\ attempt = 2
    /\ requests = 3
    /\ result = [status |-> "completed", url |-> "https://cdn/v2.mp4",
                 duration |-> "10"]

\* position of the loop within the call: it grows with every step
PollRank ==
    2 * attempt + (CASE pc = "start" -> 0
                     [] pc = "request" -> 1
                     [] pc = "response" -> 2
                     [] pc = "exhausted" -> 1
                     [] OTHER -> 3)

\* C5: when no poll yields a terminal status the loop ends with the timeout
\* result after exactly max_attempts status requests, and no exception
\* leaves the loop: a non-terminal poll returns nothing and uses up one
\* attempt, every step of the loop advances it, and it runs out of attempts
\* only after max_attempts requests, returning the timeout result.
C5_TimesOutAtBound ==
    /\ [](pc # "raised")
    /\ [][PollRank' > PollRank]_vars
    /\ [](attempt <= max_attempts /\ requests <= max_attempts)
    /\ [][(pc = "response" /\ ~TerminalPoll) =>
             /\ attempt' = attempt + 1
             /\ result' = NotReturned
             /\ pc' \in {"request", "exhausted"}]_vars
    /\ []((pc = "exhausted" \/ returned_at = "timeout") =>
             /\ attempt = max_attempts
             /\ requests = max_attempts)
    /\ []((pc = "done" /\ attempt = max_attempts) =>
             /\ returned_at = "timeout"
             /\ result = TimeoutResult)

C5_Witness ==
    /\ pc = "done"
    /\ returned_at = "timeout"
    /\ requests = max_attempts
    /\ sleeps = max_attempts

\* C6: the result of an exhausted attempt budget differs in its status from
\* the result of a provider-reported failure.
C6_TimedOutDistinctFromFailed ==
    (pc = "done" /\ returned_at = "timeout") =>
        \A r \in FailedBodies : result.status # FailedResult(r).status

\* C7: once a poll has produced a result, no further status request is sent
\* and the result is never changed.
C7_TerminalIsFinal ==
    [][result # NotReturned =>
          /\ result' = result
          /\ returned_at' = returned_at
          /\ requests' = requests]_vars

C7_Witness ==
    /\ pc = "done"
    /\ returned_at = "task_failed"
    /\ result # NotReturned
    /\ attempt < max_attempts - 1

\* C8: a poll reporting "failed" ends the loop with a failed result whose
\* error is the task_status_msg of that response, unchanged.
C8_FailedCarriesMessage ==
    [][(/\ pc = "response"
        /\ ReportsStatus(response, "failed")
        /\ response.task_status_msg # <<>>) =>
          /\ pc' = "done"
          /\ returned_at' = "task_failed"
          /\ result' = [status |-> "failed",
                        error |-> response.task_status_msg[1]]
          /\ requests' = requests]_vars

C8_Witness ==
    /\ pc = "done"
    /\ returned_at = "task_failed"
    /\ result = [status |-> "failed", error |-> "content rejected"]

\* C9: "succeed" without any video is surfaced as an outcome distinct from
\* a provider-reported failure and from a timeout.
C9_NoVideoDistinct ==
    (pc = "done" /\ returned_at = "no_video") =>
        /\ result # TimeoutResult
        /\ \A r \in FailedBodies : result # FailedResult(r)

\* C10: a body with code 0 whose status is neither "succeed" nor "failed"
\* (or is missing) returns nothing: the loop sleeps once and goes on to the
\* next attempt, ending only when the attempt bound is reached.
C10_UnrecognizedKeepsPolling ==
    [][(/\ pc = "response"
        /\ response.kind = "json"
        /\ response.code = <<0>>
        /\ Get(response.task_status, None) \notin {"succeed", "failed"}) =>
          /\ result' = NotReturned
          /\ returned_at' = "none"
          /\ sleeps' = sleeps + 1
          /\ requests' = requests
          /\ attempt' = attempt + 1
          /\ pc' = IF attempt + 1 < max_attempts THEN "request"
                   ELSE "exhausted"]_vars

C10_Witness ==
    /\ pc = "response"
    /\ response = Body(<<0>>, <<>>, <<"archived">>, <<>>, <<>>)
    /\ attempt = 1
    /\ sleeps = 1
    /\ requests = 2
    /\ result = NotReturned

\* a body that is an authentication failure of the provider
AuthFailure(r) ==
    /\ r.kind = "json"
    /\ r.code # <<0>>
    /\ r.error_kind = "auth"

\* a body that is a provider error other than an authentication failure
OtherProviderError(r) ==
    /\ r.kind = "json"
    /\ r.code # <<0>>
    /\ r.error_kind = "other"

\* C11: after a response that is an authentication failure the loop builds
\* a new token before the next status request, the requests carry the most
\* recently built token, and the number of status requests stays within
\* max_attempts.
C11_AuthFailureRefreshesToken ==
    /\ [][(pc = "response" /\ AuthFailure(response)) =>
             /\ issued' = issued + 1
             /\ headers' = issued']_vars
    /\ [](pc \in {"request", "response"} => headers = issued)
    /\ [](requests <= max_attempts)

\* C12: a provider error that is not an authentication failure never makes
\* the loop build a new token, whatever its message says.
C12_OnlyAuthFailureRefreshes ==
    [][(pc = "response" /\ OtherProviderError(response)) =>
          /\ issued' = issued
          /\ headers' = headers]_vars

\* C13: an exception raised by a status request uses up exactly one attempt
\* and one sleep, returns nothing and leaves the loop running: the next
\* attempt follows unless the bound is reached, and nothing is raised to
\* the caller.
C13_ExceptionIsTransient ==
    [][(pc = "response" /\ response \in FailedRequests) =>
          /\ attempt' = attempt + 1
          /\ sleeps' = sleeps + 1
          /\ requests' = requests
          /\ result' = NotReturned
          /\ returned_at' = "none"
          /\ pc' = IF attempt + 1 < max_attempts THEN "request"
                   ELSE "exhausted"]_vars

C13_Witness ==
    /\ pc = "response"
    /\ response = [kind |-> "network_error"]
    /\ attempt = 2
    /\ requests = 3

\* C14: exactly one sleep lies between two consecutive status requests on
\* every path: before request n+1 the loop has slept n times, a token
\* refresh included.
C14_OneSleepBetweenRequests ==
    /\ pc = "request" => sleeps = requests
    /\ pc = "response" => sleeps = requests - 1
    /\ pc \in {"exhausted", "done"} => sleeps \in {requests - 1, requests}

C14_Witness ==
    /\ pc = "request"
    /\ issued = 3
    /\ requests = 3
    /\ sleeps = 3


(***************************************************************************)
(* generate_video: submission, ordering, download                          *)
(***************************************************************************)
\* a creation response with a non-zero code or without a job identifier
SubmissionRejected(r) ==
    /\ r.kind = "json"
    /\ \/ r.code # <<0>>
       \/ Get(r.task_id, None) \in {None, ""}

\* C15: a creation response with a non-zero code or without a task id makes
\* generate_video return the submission error at once: one creation request
\* has been sent, it is not repeated, and no status request and no download
\* is made in that call.
C15_SubmissionErrorIsImmediate ==
    /\ [][(gpc = "created" /\ SubmissionRejected(create_response)) =>
             /\ gpc' = "returned"
             /\ gresult' = ErrorResult(CreateErrorText(create_response))
             /\ creations' = creations]_vars
    /\ []((gpc \in {"created", "returned"}
            /\ SubmissionRejected(create_response)) =>
             /\ creations = 1
             /\ requests = 0
             /\ downloads = 0
             /\ pc = "idle")

C15_Witness ==
    /\ gpc = "returned"
    /\ create_response = CreateBody(<<1>>, <<"invalid image">>, <<"task-1">>)
    /\ gresult = ErrorResult("Video generation request failed: invalid image")
    /\ creations = 1

\* the poll loop returned a completed result that carries a URL
SucceededWithUrl ==
    /\ pc = "done"
    /\ returned_at = "completed"
    /\ "url" \in DOMAIN result
    /\ result.status = "completed"
    /\ result.url # None

\* C16: in one generate_video call a status request is sent only after the
\* one creation request was accepted, a download is started only after the
\* poll loop returned a completed result with a URL, and a failed or timed
\* out job is never followed by a download.
C16_CreateThenPollThenDownload ==
    /\ creations <= 1
    /\ downloads <= 1
    /\ pc # "idle" =>
          /\ creations = 1
          /\ gpc \in {"polling", "download", "returned"}
          /\ ~CreateRejected(create_response)
    /\ requests > 0 => pc # "idle"
    /\ gpc \in {"new", "ready", "image", "masks", "create", "created"} =>
          /\ requests = 0
          /\ downloads = 0
    /\ downloads > 0 => SucceededWithUrl
    /\ download_response # NoDownload => SucceededWithUrl
    /\ (pc = "done" /\ result.status = "failed") =>
          /\ downloads = 0
          /\ download_response = NoDownload

C16_Witness ==
    /\ gpc = "download"
    /\ downloads = 1
    /\ requests = 3
    /\ creations = 1
    /\ result = CompletedResult(<<Video1, Video2>>)

\* C17: when the job succeeded and the download failed, the returned value
\* keeps the completed status and the artifact URL.
C17_FetchErrorKeepsSucceeded ==
    (gpc = "returned" /\ download_response.kind \notin {"none", "saved"}) =>
        /\ "url" \in DOMAIN gresult
        /\ gresult.status = "completed"
        /\ gresult.url = result.url

\* C19: with the access key or the secret key absent the constructor fails,
\* and no creation request carries a token built from an absent key.
C19_AbsentKeyFailsConstruction ==
    /\ (env.access = "" \/ env.secret = "") => gpc \in {"new", "config_error"}
    /\ creations > 0 =>
          /\ create_auth.iss # ""
          /\ create_auth.signed_with # ""

(***************************************************************************)
(* merge_audio_video                                                       *)
(***************************************************************************)
\* C18: generate_video returns a dict with a status on every path and
\* merge_audio_video returns a dict with a success flag on every path; no
\* exception leaves either function.
C18_FailuresAreReturned ==
    /\ gpc # "raised"
    /\ mpc # "raised"
    /\ gpc = "returned" =>
          /\ "status" \in DOMAIN gresult
          /\ gresult.status \in {"completed", "failed"}
          /\ gresult.status = "failed" => "error" \in DOMAIN gresult
    /\ gpc # "returned" => gresult = NotReturned
    /\ mpc = "returned" =>
          /\ "success" \in DOMAIN mresult
          /\ mresult.success \in BOOLEAN
          /\ ~mresult.success => "error" \in DOMAIN mresult
    /\ mpc # "returned" => mresult = NotReturned

C18_Witness ==
    /\ mpc = "returned"
    /\ transcodes = 1
    /\ probes = 4
    /\ mresult = MergeFailure("ffmpeg error")

\* C20 as stated: with the output present and overwrite false the call
\* returns the output-exists failure without a probe or a transcode, whatever
\* the two input paths name.
C20_OutputExistsWhateverInputs ==
    [][(mpc = "call" /\ output_exists /\ ~overwrite) =>
          /\ mpc' = "returned"
          /\ mresult' = OutputExistsResult
          /\ probes' = 0
          /\ transcodes' = 0]_vars

\* the failure the three checks before the try block return
PreconditionFailure ==
    IF ~Exists(video_file) THEN VideoMissingResult
    ELSE IF ~Exists(audio_file) THEN AudioMissingResult
    ELSE OutputExistsResult

\* C20: with the output present and overwrite false the call returns at once
\* without a probe or a transcode; the failure is the output-exists failure
\* when both input paths exist and the missing-input failure otherwise.
C20_OutputExistsAfterInputChecks ==
    /\ [][(mpc = "call" /\ output_exists /\ ~overwrite) =>
             /\ mpc' = "returned"
             /\ mresult' = PreconditionFailure
             /\ probes' = 0
             /\ transcodes' = 0]_vars
    /\ [](mpc = "returned" /\ mresult = OutputExistsResult =>
             /\ probes = 0
             /\ transcodes = 0
             /\ output_exists
             /\ ~overwrite)

C20_Witness ==
    /\ mpc = "returned"
    /\ mresult = OutputExistsResult
    /\ output_exists
    /\ ~overwrite
    /\ video_file = "dir"
    /\ probes = 0

(***************************************************************************)
(* _poll_task_status: credential rejected at HTTP level                    *)
(***************************************************************************)
\* C27: when raise_for_status raises for a 401, the loop issues a new token
\* and puts it in the headers before the next status request.
C27_HttpRejectionRefreshesToken ==
    [][(pc = "response" /\ response.kind = "http_unauthorized") =>
          /\ issued' = issued + 1
          /\ headers' = issued']_vars

(***************************************************************************)
(* _generate_jwt_token: validity window                                    *)
(***************************************************************************)
\* C23: every returned token has exp - nbf = 1805: both are computed from
\* the same reading of the clock.
C23_WindowIs1805Seconds ==
    token # <<>> => token[1].exp - token[1].nbf = TokenLifetime + NotBeforeSkew

(***************************************************************************)
(* merge_audio_video: the transcoding process and the filesystem           *)
(***************************************************************************)
\* the merge returned {"success": True, ...}
MergeSucceeded == mpc = "returned" /\ mresult.success

\* C21: a merge starts at most one transcoding process; it returns success
\* only after that one process completed and the file it wrote was measured,
\* and a call whose transcoding did not complete reports failure.
C21_OneTranscodePerCall ==
    /\ transcodes <= 1
    /\ MergeSucceeded =>
          /\ transcodes = 1
          /\ output_written \in {"created", "replaced"}
          /\ output_exists
          /\ output_duration # <<>>
          /\ mresult.output = output_duration[1]
    /\ (mpc = "returned" /\ output_written \notin {"created", "replaced"}) =>
          /\ ~mresult.success
          /\ "error" \in DOMAIN mresult

C21_Witness ==
    /\ MergeSucceeded
    /\ transcodes = 1
    /\ overwrite
    /\ output_written = "replaced"
    /\ probes = 5

\* the larger of the two reported input durations
LongerInput == IF mresult.input_audio > mresult.input_video
               THEN Frac(mresult.input_audio, 1)
               ELSE Frac(mresult.input_video, 1)

C26_NoOverwriteWithoutFlag ==
    ~overwrite => output_written # "replaced"

\* C30: a merge that returns a failure without having started ffmpeg has
\* created no directory and has not touched the output path.
C30_EarlyFailureLeavesNoTrace ==
    (mpc = "returned" /\ transcodes = 0) =>
        /\ ~dir_created
        /\ output_written = "untouched"

(***************************************************************************)
(* Interleaved generate_video calls                                        *)
(***************************************************************************)
\* what call j returned agrees with the status response it handled last
AnswersOwnResponse(j) ==
    LET r == jobs[j].handled
        out == jobs[j].result
    IN  IF r = NoResponse
        THEN out = [status |-> "failed",
                    error |-> "Failed to get video generation task ID"]
        ELSE IF r.task_status = <<"failed">>
        THEN /\ out.status = "failed"
             /\ r.task_status_msg # <<>> => out.error = r.task_status_msg[1]
        ELSE /\ r.task_status = <<"succeed">>
             /\ out.status = "completed"
             /\ <<out.url>> = r.task_result[1].videos[1][1].url

\* C24: with two calls interleaved on one instance, a step of one call
\* changes no local of the other (so a token refresh in one leaves the
\* other's token and headers alone), the two calls never hold the same
\* token, and each call returns what its own last response says.
C24_JobsShareNoState ==
    /\ [][\A i, j \in Jobs :
            (i # j /\ jobs'[i] # jobs[i]) => jobs'[j] = jobs[j]]_vars
    /\ [](\A i, j \in Jobs :
            (i # j /\ jobs[i].headers # 0) =>
                jobs[i].headers # jobs[j].headers)
    /\ [](\A j \in Jobs : jobs[j].headers = jobs[j].jwt_token)
    /\ [](\A j \in Jobs : jobs[j].pc = "returned" => AnswersOwnResponse(j))

C24_Witness ==
    /\ jobs[1].pc = "returned"
    /\ jobs[1].result.status = "completed"
    /\ jobs[1].headers = 2
    /\ jobs[2].pc = "request"
    /\ jobs[2].attempt = 1
    /\ jobs[2].headers = 5
    /\ jobs[2].handled = AuthErrorBody(<<MsgTokenExpired>>)

(***************************************************************************)
(* app.py: the stored project                                              *)
(***************************************************************************)
\* the step in which the /video/generate handler answers
VideoHandlerAnswers == vpc # "done" /\ vpc' = "done"

\* C28: a generation that ends with status "failed" leaves a completed
\* video record of the stored project in place.
C28_FailedKeepsEarlierVideo ==
    [][(/\ VideoHandlerAnswers
        /\ stored.video = <<EarlierVideo>>
        /\ app_video_result' # NotReturned
        /\ app_video_result'.status = "failed") =>
          stored'.video = stored.video]_vars

\* C29: what another request saved in the project between the handler's
\* get_project and save_project is still stored after the handler has saved.
C29_ConcurrentUpdateSurvives ==
    [][VideoHandlerAnswers => stored'.speech = stored.speech]_vars

====
